---- MODULE Spec2Model ----
(***************************************************************************)
(* The composition engine of the six-key pinyin keyboard (KeyboardLayout): *)
(* key-group matching, segmentation, candidate ranking and the composition *)
(* state machine driven by taps, candidate picks, delete, space, enter,    *)
(* cancel and slide commits.                                               *)
(*                                                                         *)
(* Text is a sequence of UTF-16 code units; each Hanzi is one code unit    *)
(* and is written here as an ASCII token ("Pu3" for the first Hanzi of     *)
(* "pu").  A syllable is a sequence of letters.  Scores are kept in tenths *)
(* so that the penalties idx * 0.1 and idx * 0.5 are integers.             *)
(***************************************************************************)
EXTENDS Integers, Sequences, FiniteSets, TLC

VARIABLES
    pinyinKeys,              \* KeyGroup[]  (useState, line 60)
    stagedText,              \* string      (line 61)
    selectionHistory,        \* HistoryItem[] (line 62)
    isExpanded,              \* boolean     (line 65)
    candidateMode,           \* 'word' | 'char' (line 67)
    focusedPinyinCandidate,  \* Segment | null (line 72)
    usageHistory,            \* Record<string, number> (line 75)
    effectPending,           \* the useEffect([pinyinKeys]) has yet to run
    sinkCalls,               \* the texts passed to onKeyPress by the last event
    hostDeletes,             \* the number of onDelete calls of the last event
    lastEvent,               \* the last event handled and the branch it took
    undoTrail,               \* composition before each selection not yet undone
    picked,                  \* values selected, and not undone, since the composition began
    rendered,                \* the useMemo values of a render (kept by RenderSpec only)
    matcherCall              \* one call of matchesGroups (kept by MatcherSpec only)

vars == <<pinyinKeys, stagedText, selectionHistory, isExpanded,
          candidateMode, focusedPinyinCandidate, usageHistory, effectPending,
          sinkCalls, hostDeletes, lastEvent, undoTrail, picked, rendered,
          matcherCall>>

composition == <<pinyinKeys, stagedText, selectionHistory>>

----------------------------------------------------------------------------
(* Bounds of the model *)

MaxKeys == 3          \* key groups held by one composition (pending and in the history)
MaxSelections == 2    \* selections counted in usageHistory before the model stops selecting
MaxBuffer == 4        \* key groups of the buffers a render is computed for
MaxChunk == 2         \* key groups of the chunks the matcher is called with
MaxTyped == 21        \* key groups typed in a row before the typing model stops

----------------------------------------------------------------------------
(* JavaScript helpers *)

\* The null Segment of focusedPinyinCandidate.
Null == [str |-> <<>>, len |-> 0]

Min(a, b) == IF a < b THEN a ELSE b
Max(a, b) == IF a > b THEN a ELSE b

\* Array.prototype.slice / String.prototype.slice(start, end), 0-based, with
\* negative indices counted from the end and both ends clamped.
Slice(s, start, end) ==
    LET n == Len(s)
        a == IF start < 0 THEN Max(n + start, 0) ELSE Min(start, n)
        b == IF end < 0 THEN Max(n + end, 0) ELSE Min(end, n)
    IN  IF a >= b THEN <<>> ELSE SubSeq(s, a + 1, b)

\* s.slice(start)
SliceFrom(s, start) == Slice(s, start, Len(s))

\* String.prototype.toLowerCase on one code unit.
UpperCase == <<"A", "E", "G", "T", "P", "R", "U", "I">>
LowerCase == <<"a", "e", "g", "t", "p", "r", "u", "i">>
toLowerCase(c) ==
    IF \E i \in 1..Len(UpperCase) : UpperCase[i] = c
    THEN LowerCase[CHOOSE i \in 1..Len(UpperCase) : UpperCase[i] = c]
    ELSE c

\* text.toLowerCase()
LowerText(t) == [i \in 1..Len(t) |-> toLowerCase(t[i])]

RECURSIVE Concat(_)
\* array.join('') of an array of texts
Concat(ts) == IF ts = <<>> THEN <<>> ELSE Head(ts) \o Concat(Tail(ts))

Includes(arr, x) == \E i \in 1..Len(arr) : arr[i] = x

----------------------------------------------------------------------------
(* The key layout and the dictionary (constants.ts) *)

CharGroup(label, chars) ==
    [label |-> label, hasChars |-> TRUE, chars |-> chars, action |-> "", type |-> "char-group"]
ActionKey(label, action) ==
    [label |-> label, hasChars |-> FALSE, chars |-> <<>>, action |-> action, type |-> "action"]

KQ == CharGroup("QWERT", <<"q", "w", "e", "r", "t">>)
KY == CharGroup("YUIOP", <<"y", "u", "i", "o", "p">>)
KA == CharGroup("ASDFG", <<"a", "s", "d", "f", "g">>)
KComma == CharGroup(",", <<",">>)
KBackspace == ActionKey("Del", "backspace")
KSpace == ActionKey("Space", "space")
KEnter == ActionKey("Enter", "enter")

\* Keys of ROW_1 .. ROW_4.
ROWS == {KQ, KY, KA, KComma, KBackspace, KSpace, KEnter}

\* The keys the composition state machine is driven with.
TappedKeys == {KQ, KA, KComma, KBackspace, KSpace, KEnter}

\* Array.from(VALID_PINYINS), in insertion order.
VALID_PINYINS ==
    << <<"a">>, <<"e">>, <<"g", "e">>, <<"t", "e">>, <<"p", "u">>, <<"r", "u", "i">>,
       <<"p", "o">>, <<"y", "a">>, <<"g", "u", "a", "i">> >>

\* PINYIN_TO_HANZI: syllable -> ordered characters; "te" and "ya" are valid
\* syllables without an entry, the character "Pu1" has the two readings "pu"
\* and "po", and "guai" has a list of 22 characters.
PINYIN_TO_HANZI(p) ==
    CASE p = <<"a">> -> << <<"Ah">> >>
      [] p = <<"e">> -> << <<"E4">> >>
      [] p = <<"g", "e">> -> << <<"Ge4">> >>
      [] p = <<"p", "u">> -> << <<"Pu3">>, <<"Pu1">> >>
      [] p = <<"r", "u", "i">> -> << <<"Rui4">> >>
      [] p = <<"p", "o">> -> << <<"Pu1">>, <<"Po1">> >>
      [] p = <<"g", "u", "a", "i">> ->
          << <<"Guai1">>, <<"Guai2">>, <<"Guai3">>, <<"Guai4">>,
             <<"Guai5">>, <<"Guai6">>, <<"Guai7">>, <<"Guai8">>,
             <<"Guai9">>, <<"Guai10">>, <<"Guai11">>, <<"Guai12">>,
             <<"Guai13">>, <<"Guai14">>, <<"Guai15">>, <<"Guai16">>,
             <<"Guai17">>, <<"Guai18">>, <<"Guai19">>, <<"Guai20">>,
             <<"Guai21">>, <<"Guai22">> >>
      [] OTHER -> <<>>

\* COMMON_PHRASES: apostrophe-joined syllables -> ordered phrases.
COMMON_PHRASES(k) ==
    CASE k = <<"p", "u", "'", "r", "u", "i">> -> << <<"Pu3", "Rui4">> >>
      [] k = <<"a", "'", "g", "e">> -> << <<"A1", "Ge1">> >>
      [] OTHER -> <<>>

----------------------------------------------------------------------------
(* Key-Group Matcher *)

\* Mutant: the loop returns after the first letter.
matchesGroupsFirstOnly(target, groups) ==
    /\ Len(target) = Len(groups)
    /\ \A i \in 1..Min(1, Len(target)) :
          /\ groups[i].hasChars
          /\ Includes(groups[i].chars, toLowerCase(target[i]))

\* Mutant: the letters of the group are lower-cased too.
matchesGroupsFoldsBoth(target, groups) ==
    /\ Len(target) = Len(groups)
    /\ \A i \in 1..Len(target) :
          /\ groups[i].hasChars
          /\ Includes(LowerText(groups[i].chars), toLowerCase(target[i]))

matchesGroups(target, groups) ==
    /\ Len(target) = Len(groups)
    /\ \A i \in 1..Len(target) :
          /\ groups[i].hasChars
          /\ Includes(groups[i].chars, toLowerCase(target[i]))

\* validPinyinsArray.filter(p => p.length === len && matchesGroups(p, chunkSlice))
Matches(chunkSlice, len) ==
    SelectSeq(VALID_PINYINS, LAMBDA p : Len(p) = len /\ matchesGroups(p, chunkSlice))

----------------------------------------------------------------------------
(* Segmentation *)

MaxSyllableLen == 6

\* const memo = new Map<number, Segment[][]>()
EmptyMemo == [index \in {} |-> <<>>]

\* Mutant: the results are stored under the next index.
MemoSetOffByOne(memo, index, results) ==
    [i \in DOMAIN memo \cup {index + 1} |-> IF i = index + 1 THEN results ELSE memo[i]]

\* memo.set(index, results)
MemoSet(memo, index, results) ==
    [i \in DOMAIN memo \cup {index} |-> IF i = index THEN results ELSE memo[i]]

RECURSIVE solve(_, _, _)
RECURSIVE SolveLen(_, _, _, _)
RECURSIVE SolveMatches(_, _, _, _, _)

\* for (const m of matches) for (const suffix of solve(index + len)) push([m, ...suffix])
\* Like solve, it yields the results pushed and the memo table as it leaves it.
SolveMatches(keys, index, len, ms, memo) ==
    IF ms = <<>> THEN [results |-> <<>>, memo |-> memo]
    ELSE LET suffixes == solve(keys, index + len, memo)
             here == [j \in 1..Len(suffixes.results) |->
                         <<[str |-> Head(ms), len |-> len]>> \o suffixes.results[j]]
             rest == SolveMatches(keys, index, len, Tail(ms), suffixes.memo)
         IN  [results |-> here \o rest.results, memo |-> rest.memo]

\* for (let len = from; len <= maxChunkLen; len++)
SolveLen(keys, index, len, memo) ==
    IF len > Min(MaxSyllableLen, Len(keys) - index) THEN [results |-> <<>>, memo |-> memo]
    ELSE LET here == SolveMatches(keys, index, len,
                                  Matches(Slice(keys, index, index + len), len), memo)
             rest == SolveLen(keys, index, len + 1, here.memo)
         IN  [results |-> here.results \o rest.results, memo |-> rest.memo]

\* function solve(index): Segment[][], with the memo table passed along
solve(keys, index, memo) ==
    IF index = Len(keys) THEN [results |-> << <<>> >>, memo |-> memo]
    ELSE IF index \in DOMAIN memo THEN [results |-> memo[index], memo |-> memo]
    ELSE LET r == SolveLen(keys, index, 1, memo)
         IN  [results |-> r.results, memo |-> MemoSet(r.memo, index, r.results)]

\* Mutant: the guard for the empty buffer is missing.
segmentationsNoGuard(keys) == solve(keys, 0, EmptyMemo).results

segmentations(keys) == IF Len(keys) = 0 THEN <<>> ELSE solve(keys, 0, EmptyMemo).results

----------------------------------------------------------------------------
(* Syllable picker row *)

Alphabet == <<"'", ",", "a", "d", "e", "f", "g", "i", "o", "p", "q", "r", "s", "t", "u",
              "w", "y">>
Rank(c) == CHOOSE i \in 1..Len(Alphabet) : Alphabet[i] = c

RECURSIVE StrBefore(_, _)
\* a.localeCompare(b) < 0 on lower-case latin strings
StrBefore(a, b) ==
    IF b = <<>> THEN FALSE
    ELSE IF a = <<>> THEN TRUE
    ELSE IF Head(a) # Head(b) THEN Rank(Head(a)) < Rank(Head(b))
    ELSE StrBefore(Tail(a), Tail(b))

\* Array.prototype.sort with comparator cmp, before[i][j] telling whether
\* cmp(arr[i], arr[j]) < 0: a stable sort, so arr[i] lands behind everything
\* that precedes it and behind its equals that stood before it.
StableSort(arr, before) ==
    LET n == Len(arr)
        pos(i) == Cardinality({j \in 1..n : before[j][i]})
                  + Cardinality({j \in 1..(i - 1) : ~before[j][i] /\ ~before[i][j]})
                  + 1
    IN  [k \in 1..n |-> arr[CHOOSE i \in 1..n : pos(i) = k]]

RECURSIVE PrefixSegments(_, _)
\* Mutant: the loop stops one length short (len < maxLen).
PrefixSegmentsStopsEarly(keys, len) ==
    IF len >= Min(MaxSyllableLen, Len(keys)) THEN <<>>
    ELSE LET ms == Matches(Slice(keys, 0, len), len)
         IN  [j \in 1..Len(ms) |-> [str |-> ms[j], len |-> len]]
             \o PrefixSegments(keys, len + 1)

\* for (let len = from; len <= maxLen; len++) matches.forEach(m => results.push(...))
PrefixSegments(keys, len) ==
    IF len > Min(MaxSyllableLen, Len(keys)) THEN <<>>
    ELSE LET ms == Matches(Slice(keys, 0, len), len)
         IN  [j \in 1..Len(ms) |-> [str |-> ms[j], len |-> len]]
             \o PrefixSegments(keys, len + 1)

SegmentBefore(a, b) == a.len < b.len \/ (a.len = b.len /\ StrBefore(a.str, b.str))

availablePinyinSegments(keys) ==
    IF Len(keys) = 0 THEN <<>>
    ELSE LET results == PrefixSegments(keys, 1)
         IN  StableSort(results, [i \in DOMAIN results |-> [j \in DOMAIN results |->
                                     SegmentBefore(results[i], results[j])]])

----------------------------------------------------------------------------
(* Candidate ranker *)

\* usageHistory[value] || 0
Freq(usage, value) == IF value \in DOMAIN usage THEN usage[value] ELSE 0

\* const processed = new Set<string>(); const resultList: Candidate[] = []
\* (calls logs every call of addResult, in order, with the candidate it offers)
NoResults == [processed |-> {}, resultList |-> <<>>, calls |-> <<>>]

\* Mutant: phrases get no bonus in word mode.
ModeBonusCharOnly(mode, type) == IF mode = "char" /\ type = "char" THEN 200 ELSE 0

\* Mode Adjustments
ModeBonus(mode, type) ==
    IF mode = "char" /\ type = "char" THEN 200
    ELSE IF mode = "word" /\ type = "phrase" THEN 50
    ELSE 0

\* Mutant: a later occurrence of a pair with a higher score replaces the entry.
addResultBoosts(acc, mode, usage, display, value, baseScore, consumedLen, type, indexPenalty) ==
    LET key == <<value, consumedLen>>
        bonus == IF mode = "char" /\ type = "char" THEN 200
                 ELSE IF mode = "word" /\ type = "phrase" THEN 50
                 ELSE 0
        score == 10 * (baseScore + bonus + Len(value) * 5 + Freq(usage, value) * 10)
                 - indexPenalty
        offered == [display |-> display, value |-> value, score |-> score,
                    consumedLen |-> consumedLen, type |-> type]
    IN  IF key \in acc.processed
        THEN [acc EXCEPT !.calls = Append(@, offered),
                         !.resultList = [i \in DOMAIN @ |->
                             IF <<@[i].value, @[i].consumedLen>> = key /\ @[i].score < score
                             THEN offered ELSE @[i]]]
        ELSE [processed |-> acc.processed \cup {key},
              resultList |-> Append(acc.resultList, offered),
              calls |-> Append(acc.calls, offered)]

\* addResult: acc is [processed, resultList, calls]; scores and indexPenalty in
\* tenths.  The key `${value}-${consumedLen}` is the pair <<value, consumedLen>>.
addResult(acc, mode, usage, display, value, baseScore, consumedLen, type, indexPenalty) ==
    LET key == <<value, consumedLen>>
        bonus == ModeBonus(mode, type)
        score == 10 * (baseScore + bonus + Len(value) * 5 + Freq(usage, value) * 10)
                 - indexPenalty
        offered == [display |-> display, value |-> value, score |-> score,
                    consumedLen |-> consumedLen, type |-> type]
    IN  IF key \in acc.processed
        THEN [acc EXCEPT !.calls = Append(@, offered)]
        ELSE [processed |-> acc.processed \cup {key},
              resultList |-> Append(acc.resultList, offered),
              calls |-> Append(acc.calls, offered)]

RECURSIVE AddEach(_, _, _, _, _, _, _, _, _)
\* list.forEach((x, idx) => addResult(x, x, baseScore, consumedLen, type, idx * step))
AddEach(acc, mode, usage, list, idx, baseScore, consumedLen, type, step) ==
    IF idx >= Len(list) THEN acc
    ELSE AddEach(addResult(acc, mode, usage, list[idx + 1], list[idx + 1], baseScore,
                           consumedLen, type, idx * step),
                 mode, usage, list, idx + 1, baseScore, consumedLen, type, step)

\* Mutant: the syllables are joined without the apostrophe.
accumulatePinyinNoApostrophe(accumulatedPinyin, i, s) == accumulatedPinyin \o s.str

\* accumulatedPinyin += (i > 0 ? "'" : "") + s.str
accumulatePinyin(accumulatedPinyin, i, s) ==
    accumulatedPinyin \o (IF i > 0 THEN <<"'">> ELSE <<>>) \o s.str

RECURSIVE AddPhrases(_, _, _, _, _, _, _)
\* for (let i = from; i < Math.min(segPath.length, 4); i++) { accumulate; look up phrases }
AddPhrases(acc, mode, usage, segPath, i, accumulatedPinyin, accumulatedLen) ==
    IF i >= Min(Len(segPath), 4) THEN acc
    ELSE LET s == segPath[i + 1]
             pinyin == accumulatePinyin(accumulatedPinyin, i, s)
             len == accumulatedLen + s.len
             acc2 == AddEach(acc, mode, usage, COMMON_PHRASES(pinyin), 0, 150, len,
                             "phrase", 1)
         IN  AddPhrases(acc2, mode, usage, segPath, i + 1, pinyin, len)

RECURSIVE AddPaths(_, _, _, _)
\* segmentations.forEach(segPath => { phrases; characters of the first segment })
AddPaths(acc, mode, usage, paths) ==
    IF paths = <<>> THEN acc
    ELSE LET segPath == Head(paths)
             acc2 == IF Len(segPath) = 0 THEN acc
                     ELSE AddEach(AddPhrases(acc, mode, usage, segPath, 0, <<>>, 0),
                                  mode, usage, PINYIN_TO_HANZI(segPath[1].str), 0, 50,
                                  segPath[1].len, "char", 5)
         IN  AddPaths(acc2, mode, usage, Tail(paths))

\* keys.map(k => k.chars?.[0] || '?').join("")
RawFallback(keys) ==
    [i \in 1..Len(keys) |->
        IF keys[i].hasChars /\ Len(keys[i].chars) > 0 THEN keys[i].chars[1] ELSE "?"]

\* Mutant: the comparator sorts ascending.
ScoreBeforeAscending(a, b) == a.score - b.score < 0

ScoreBefore(a, b) == b.score - a.score < 0

\* resultList.sort((a, b) => b.score - a.score)
SortByScore(resultList) ==
    StableSort(resultList, [i \in DOMAIN resultList |-> [j \in DOMAIN resultList |->
                               ScoreBefore(resultList[i], resultList[j])]])

\* Mutant: the focused branch does not return, the default prediction runs too.
RankedFocusFallsThrough(keys, mode, focus, usage) ==
    LET segs == segmentations(keys)
        focused == IF focus # Null
                   THEN AddEach(NoResults, mode, usage, PINYIN_TO_HANZI(focus.str), 0,
                                100, focus.len, "char", 1)
                   ELSE NoResults
    IN  IF Len(segs) > 0
        THEN AddPaths(focused, mode, usage, segs)
        ELSE IF focus # Null THEN focused
        ELSE addResult(NoResults, mode, usage, RawFallback(keys), RawFallback(keys),
                       0, Len(keys), "raw", 0)

\* The body of the candidates memo up to the final sort.
Ranked(keys, mode, focus, usage) ==
    LET segs == segmentations(keys)
    IN  IF focus # Null
        THEN AddEach(NoResults, mode, usage, PINYIN_TO_HANZI(focus.str), 0, 100,
                     focus.len, "char", 1)
        ELSE IF Len(segs) > 0
        THEN AddPaths(NoResults, mode, usage, segs)
        ELSE addResult(NoResults, mode, usage, RawFallback(keys), RawFallback(keys),
                       0, Len(keys), "raw", 0)

Candidates(keys, mode, focus, usage) ==
    IF Len(keys) = 0 THEN <<>>
    ELSE SortByScore(Ranked(keys, mode, focus, usage).resultList)

candidates == Candidates(pinyinKeys, candidateMode, focusedPinyinCandidate, usageHistory)

----------------------------------------------------------------------------
(* Presentation: what the rendered component offers to the user *)

QuickBarLen == 5

hasComposition == Len(pinyinKeys) > 0 \/ Len(stagedText) > 0

\* The candidate buttons on screen: the first five in the quick bar, or the
\* grid of the expanded panel, whose pages (swipes, page buttons) bring every
\* candidate of the list on screen.
shownCandidates ==
    IF isExpanded THEN candidates
    ELSE IF hasComposition THEN Slice(candidates, 0, QuickBarLen)
    ELSE <<>>

----------------------------------------------------------------------------
(* Composition state machine *)

\* What lastEvent records: the inbound event, the branch its handler took and,
\* for a selection, the candidate's value and consumedLen (else <<>> and 0).
Event(kind, branch) == [kind |-> kind, branch |-> branch, arg |-> <<>>, len |-> 0]
Selection(kind, branch, candidate) ==
    [kind |-> kind, branch |-> branch, arg |-> candidate.value, len |-> candidate.consumedLen]
\* A tap on a key with letters records the letters of the key.
Typed(kind, branch, data) ==
    [kind |-> kind, branch |-> branch, arg |-> data.chars, len |-> 0]

NoTrail == [snaps |-> <<>>, undone |-> 0]
NoPicks == [clean |-> TRUE, values |-> <<>>]
NotRendered == [done |-> FALSE, availablePinyinSegments |-> <<>>, segmentations |-> <<>>,
                candidates |-> <<>>, calls |-> <<>>]
NoCall == [target |-> <<>>, groups |-> <<>>, returned |-> FALSE, result |-> FALSE]

Idle == pinyinKeys = <<>> /\ stagedText = <<>> /\ selectionHistory = <<>>

SelectionsMade ==
    LET RECURSIVE Sum(_)
        Sum(S) == IF S = {} THEN 0
                  ELSE LET v == CHOOSE x \in S : TRUE
                       IN  usageHistory[v] + Sum(S \ {v})
    IN  Sum(DOMAIN usageHistory)

Init ==
    /\ pinyinKeys = <<>>
    /\ stagedText = <<>>
    /\ selectionHistory = <<>>
    /\ isExpanded = FALSE
    /\ candidateMode = "word"
    /\ focusedPinyinCandidate = Null
    /\ usageHistory = <<>>
    /\ effectPending = FALSE
    /\ sinkCalls = <<>>
    /\ hostDeletes = 0
    /\ lastEvent = Event("mount", "")
    /\ undoTrail = NoTrail
    /\ picked = NoPicks
    /\ rendered = NotRendered
    /\ matcherCall = NoCall

\* Mutant: the effect resets the page only.
EffectPinyinKeysPageOnly ==
    /\ effectPending
    /\ effectPending' = FALSE
    /\ UNCHANGED <<pinyinKeys, stagedText, selectionHistory, isExpanded, candidateMode,
                   focusedPinyinCandidate, usageHistory, sinkCalls, hostDeletes, lastEvent,
                   undoTrail, picked, rendered, matcherCall>>

\* useEffect(() => { setPage(0); setFocusedPinyinCandidate(null) }, [pinyinKeys])
\* (the page of the candidate grid is presentation and is not part of the model)
EffectPinyinKeys ==
    /\ effectPending
    /\ focusedPinyinCandidate' = Null
    /\ effectPending' = FALSE
    /\ UNCHANGED <<pinyinKeys, stagedText, selectionHistory, isExpanded, candidateMode,
                   usageHistory, sinkCalls, hostDeletes, lastEvent, undoTrail, picked,
                   rendered, matcherCall>>

\* Mutant: the selection history survives the reset.
clearCompositionKeepsHistory ==
    /\ pinyinKeys' = <<>>
    /\ stagedText' = <<>>
    /\ UNCHANGED selectionHistory
    /\ isExpanded' = FALSE
    /\ focusedPinyinCandidate' = Null
    /\ effectPending' = TRUE

\* Mutant: the focus survives the reset.
clearCompositionKeepsFocus ==
    /\ pinyinKeys' = <<>>
    /\ stagedText' = <<>>
    /\ selectionHistory' = <<>>
    /\ isExpanded' = FALSE
    /\ UNCHANGED focusedPinyinCandidate
    /\ effectPending' = TRUE

clearComposition ==
    /\ pinyinKeys' = <<>>
    /\ stagedText' = <<>>
    /\ selectionHistory' = <<>>
    /\ isExpanded' = FALSE
    /\ focusedPinyinCandidate' = Null
    /\ effectPending' = TRUE

\* The history variables, derived from the event just handled.
Observe ==
    /\ UNCHANGED <<rendered, matcherCall>>
    /\ undoTrail' =
          IF lastEvent'.branch = "stage"
          THEN [snaps |-> Append(undoTrail.snaps, composition), undone |-> 0]
          ELSE IF lastEvent'.branch = "undo" /\ undoTrail.snaps # <<>>
          THEN [snaps |-> SubSeq(undoTrail.snaps, 1, Len(undoTrail.snaps) - 1),
                undone |-> undoTrail.undone + 1]
          ELSE IF composition' = composition
                  /\ focusedPinyinCandidate' = focusedPinyinCandidate
          THEN undoTrail
          ELSE NoTrail
    /\ picked' =
          LET base == IF Idle THEN NoPicks ELSE picked
          IN  IF lastEvent'.branch \in {"stage", "commit"}
              THEN [base EXCEPT !.values = Append(@, lastEvent'.arg)]
              ELSE IF lastEvent'.branch = "undo"
              THEN [base EXCEPT !.values = Slice(@, 0, -1)]
              ELSE IF lastEvent'.branch \in {"flush", "dropChar"}
              THEN [base EXCEPT !.clean = FALSE]
              ELSE base

\* Mutant: the count is written as 1 instead of prev + 1.
BumpUsageForgetsPrev(usage, value) ==
    [v \in DOMAIN usage \cup {value} |-> IF v = value THEN 1 ELSE usage[v]]

\* { ...prev, [value]: (prev[value] || 0) + 1 }
BumpUsage(usage, value) ==
    [v \in DOMAIN usage \cup {value} |->
        IF v = value THEN Freq(usage, v) + 1 ELSE usage[v]]

\* Mutant: the staged text is left out of the committed text.
NewStagedTextDropsStaged(staged, candidate) == candidate.value

\* stagedText + candidate.value
NewStagedText(staged, candidate) == staged \o candidate.value

\* Mutant: the commit branch is never taken.
CommitsAllNever(remainingKeys) == FALSE

\* remainingKeys.length === 0
CommitsAll(remainingKeys) == Len(remainingKeys) = 0

\* Mutant: the last consumed key is left out of the history entry.
ConsumedKeysDropsLast(keys, candidate) == Slice(keys, 0, candidate.consumedLen - 1)

\* pinyinKeys.slice(0, candidate.consumedLen)
ConsumedKeys(keys, candidate) == Slice(keys, 0, candidate.consumedLen)

handleCandidateSelect(kind, candidate) ==
    LET newStagedText == NewStagedText(stagedText, candidate)
        consumedKeys == ConsumedKeys(pinyinKeys, candidate)
        remainingKeys == SliceFrom(pinyinKeys, candidate.consumedLen)
    IN  /\ usageHistory' = BumpUsage(usageHistory, candidate.value)
        /\ hostDeletes' = 0
        /\ UNCHANGED candidateMode
        /\ IF CommitsAll(remainingKeys)
           THEN /\ sinkCalls' = <<newStagedText>>
                /\ clearComposition
                /\ lastEvent' = Selection(kind, "commit", candidate)
           ELSE /\ selectionHistory' =
                      Append(selectionHistory, [text |-> candidate.value, keys |-> consumedKeys])
                /\ stagedText' = newStagedText
                /\ pinyinKeys' = remainingKeys
                /\ isExpanded' = TRUE
                /\ focusedPinyinCandidate' = Null
                /\ effectPending' = TRUE
                /\ sinkCalls' = <<>>
                /\ lastEvent' = Selection(kind, "stage", candidate)

\* if (focusedPinyinCandidate) { setFocusedPinyinCandidate(null); return; }
panelDeleteFocus ==
    /\ focusedPinyinCandidate' = Null
    /\ hostDeletes' = 0
    /\ lastEvent' = Event("backspace", "unfocus")
    /\ UNCHANGED <<pinyinKeys, stagedText, selectionHistory, effectPending>>

\* prev => prev.slice(0, -last.text.length)
UndoText(staged, last) == Slice(staged, 0, -Len(last.text))

\* Mutant: the withdrawn keys are put back behind the pending keys.
UndoKeysAtEnd(keys, last) == keys \o last.keys

\* prev => [...last.keys, ...prev]
UndoKeys(keys, last) == last.keys \o keys

\* Withdraw Selection (Undo)
panelDeleteUndo ==
    LET last == selectionHistory[Len(selectionHistory)]
    IN  /\ selectionHistory' = Slice(selectionHistory, 0, -1)
        /\ stagedText' = UndoText(stagedText, last)
        /\ pinyinKeys' = UndoKeys(pinyinKeys, last)
        /\ effectPending' = TRUE
        /\ hostDeletes' = 0
        /\ lastEvent' = Event("backspace", "undo")
        /\ UNCHANGED focusedPinyinCandidate

\* Edit Mode
panelDeleteEdit ==
    IF Len(pinyinKeys) > 0
    THEN /\ pinyinKeys' = Slice(pinyinKeys, 0, -1)
         /\ effectPending' = TRUE
         /\ hostDeletes' = 0
         /\ lastEvent' = Event("backspace", "dropKey")
         /\ UNCHANGED <<stagedText, selectionHistory, focusedPinyinCandidate>>
    ELSE IF Len(stagedText) > 0
    THEN /\ stagedText' = Slice(stagedText, 0, -1)
         /\ hostDeletes' = 0
         /\ lastEvent' = Event("backspace", "dropChar")
         /\ UNCHANGED <<pinyinKeys, selectionHistory, focusedPinyinCandidate, effectPending>>
    ELSE /\ hostDeletes' = 1
         /\ lastEvent' = Event("backspace", "hostDelete")
         /\ UNCHANGED <<pinyinKeys, stagedText, selectionHistory, focusedPinyinCandidate,
                        effectPending>>

\* Mutant: the focus check, with its early return, is missing.
handlePanelDeleteIgnoresFocus ==
    /\ sinkCalls' = <<>>
    /\ UNCHANGED <<isExpanded, candidateMode, usageHistory>>
    /\ IF Len(selectionHistory) > 0 THEN panelDeleteUndo ELSE panelDeleteEdit

\* Mutant: pending keys are edited before a selection is withdrawn.
handlePanelDeleteEditsFirst ==
    /\ sinkCalls' = <<>>
    /\ UNCHANGED <<isExpanded, candidateMode, usageHistory>>
    /\ IF focusedPinyinCandidate # Null THEN panelDeleteFocus
       ELSE IF Len(pinyinKeys) > 0 THEN panelDeleteEdit
       ELSE IF Len(selectionHistory) > 0 THEN panelDeleteUndo
       ELSE panelDeleteEdit

handlePanelDelete ==
    /\ sinkCalls' = <<>>
    /\ UNCHANGED <<isExpanded, candidateMode, usageHistory>>
    /\ IF focusedPinyinCandidate # Null THEN panelDeleteFocus
       ELSE IF Len(selectionHistory) > 0 THEN panelDeleteUndo
       ELSE panelDeleteEdit

\* Mutant: the last listed letter of each group is read.
RawReadingLastLetter(keys) ==
    LowerText(Concat([i \in 1..Len(keys) |->
        IF keys[i].hasChars /\ Len(keys[i].chars) > 0
        THEN <<keys[i].chars[Len(keys[i].chars)]>> ELSE <<>>]))

\* keys.map(k => k.chars?.[0]).join('').toLowerCase()
RawReading(keys) ==
    LowerText(Concat([i \in 1..Len(keys) |->
        IF keys[i].hasChars /\ Len(keys[i].chars) > 0 THEN <<keys[i].chars[1]>> ELSE <<>>]))

\* Mutant: the staged text and the raw reading are sent in two calls.
EnterCallsTwice(staged, keys) == <<staged, RawReading(keys)>>

\* onKeyPress(stagedText + raw)
EnterCalls(staged, keys) == <<staged \o RawReading(keys)>>

\* Mutant: space selects the candidate ranked last.
BestCandidateLast(list) == list[Len(list)]

\* candidates[0]
BestCandidate(list) == list[1]

handleTap(data) ==
    IF data.type = "action"
    THEN IF data.action = "backspace"
         THEN handlePanelDelete
         ELSE IF data.action = "space"
         THEN IF Len(pinyinKeys) > 0 /\ Len(candidates) > 0
              THEN LET list == candidates
                   IN  handleCandidateSelect("space", BestCandidate(list))
              ELSE IF Len(stagedText) > 0
              THEN /\ sinkCalls' = <<stagedText \o <<" ">> >>
                   /\ stagedText' = <<>>
                   /\ hostDeletes' = 0
                   /\ lastEvent' = Event("space", "flush")
                   /\ UNCHANGED <<pinyinKeys, selectionHistory, isExpanded, candidateMode,
                                  focusedPinyinCandidate, usageHistory, effectPending>>
              ELSE /\ sinkCalls' = << <<" ">> >>
                   /\ hostDeletes' = 0
                   /\ lastEvent' = Event("space", "literal")
                   /\ UNCHANGED <<pinyinKeys, stagedText, selectionHistory, isExpanded,
                                  candidateMode, focusedPinyinCandidate, usageHistory,
                                  effectPending>>
         ELSE IF data.action = "enter"
         THEN IF Len(pinyinKeys) > 0 \/ Len(stagedText) > 0
              THEN /\ sinkCalls' = EnterCalls(stagedText, pinyinKeys)
                   /\ clearComposition
                   /\ hostDeletes' = 0
                   /\ lastEvent' = Event("enter", "force")
                   /\ UNCHANGED <<candidateMode, usageHistory>>
              ELSE /\ sinkCalls' = << <<"\n">> >>
                   /\ hostDeletes' = 0
                   /\ lastEvent' = Event("enter", "newline")
                   /\ UNCHANGED <<pinyinKeys, stagedText, selectionHistory, isExpanded,
                                  candidateMode, focusedPinyinCandidate, usageHistory,
                                  effectPending>>
         ELSE /\ sinkCalls' = <<>>
              /\ hostDeletes' = 0
              /\ lastEvent' = Event("action", data.action)
              /\ UNCHANGED <<pinyinKeys, stagedText, selectionHistory, isExpanded,
                             candidateMode, focusedPinyinCandidate, usageHistory, effectPending>>
    ELSE IF data.hasChars
    THEN IF Len(data.chars) = 1
         THEN /\ sinkCalls' = << <<data.chars[1]>> >>
              /\ hostDeletes' = 0
              /\ lastEvent' = Typed("literal", "emit", data)
              /\ UNCHANGED <<pinyinKeys, stagedText, selectionHistory, isExpanded,
                             candidateMode, focusedPinyinCandidate, usageHistory, effectPending>>
         ELSE /\ pinyinKeys' = Append(pinyinKeys, data)
              /\ effectPending' = TRUE
              /\ sinkCalls' = <<>>
              /\ hostDeletes' = 0
              /\ lastEvent' = Typed("letterGroup", "append", data)
              /\ UNCHANGED <<stagedText, selectionHistory, isExpanded, candidateMode,
                             focusedPinyinCandidate, usageHistory>>
    ELSE /\ sinkCalls' = <<>>
         /\ hostDeletes' = 0
         /\ lastEvent' = Event("placeholder", "")
         /\ UNCHANGED <<pinyinKeys, stagedText, selectionHistory, isExpanded,
                        candidateMode, focusedPinyinCandidate, usageHistory, effectPending>>

\* handleLongPressStart(data, rect) for the backspace key; for a letter group it
\* only opens the magnifier.
handleLongPressStart(data) ==
    /\ data.action = "backspace"
    /\ clearComposition
    /\ sinkCalls' = <<>>
    /\ hostDeletes' = 0
    /\ lastEvent' = Event("cancel", "longPress")
    /\ UNCHANGED <<candidateMode, usageHistory>>

\* Mutant: closing sends the staged text to the sink before the reset.
utilityCloseCommits ==
    /\ clearComposition
    /\ sinkCalls' = IF Len(stagedText) > 0 THEN <<stagedText>> ELSE <<>>
    /\ hostDeletes' = 0
    /\ lastEvent' = Event("cancel", "close")
    /\ UNCHANGED <<candidateMode, usageHistory>>

\* TOP_UTILITY onClick with u.action === 'close'
utilityClose ==
    /\ clearComposition
    /\ sinkCalls' = <<>>
    /\ hostDeletes' = 0
    /\ lastEvent' = Event("cancel", "close")
    /\ UNCHANGED <<candidateMode, usageHistory>>

\* if (stagedText.length > 0) onKeyPress(stagedText); ...; onKeyPress(char.toLowerCase())
SlideCalls(staged, char) ==
    (IF Len(staged) > 0 THEN <<staged>> ELSE <<>>) \o << <<toLowerCase(char)>> >>

handleSlideCommit(char) ==
    /\ IF Len(pinyinKeys) > 0 \/ Len(stagedText) > 0
       THEN /\ sinkCalls' = SlideCalls(stagedText, char)
            /\ clearComposition
            /\ lastEvent' = Event("slideCommit", "override")
       ELSE /\ sinkCalls' = SlideCalls(<<>>, char)
            /\ lastEvent' = Event("slideCommit", "plain")
            /\ UNCHANGED <<pinyinKeys, stagedText, selectionHistory, isExpanded,
                           focusedPinyinCandidate, effectPending>>
    /\ hostDeletes' = 0
    /\ UNCHANGED <<candidateMode, usageHistory>>

\* onClick of a syllable button of the picker row
toggleFocus(seg) ==
    /\ focusedPinyinCandidate' = IF focusedPinyinCandidate = seg THEN Null ELSE seg
    /\ sinkCalls' = <<>>
    /\ hostDeletes' = 0
    /\ lastEvent' = Event("focusSyllable", IF focusedPinyinCandidate = seg THEN "clear" ELSE "set")
    /\ UNCHANGED <<pinyinKeys, stagedText, selectionHistory, isExpanded, candidateMode,
                   usageHistory, effectPending>>

\* setCandidateMode(prev => prev === 'word' ? 'char' : 'word')
toggleMode ==
    /\ candidateMode' = IF candidateMode = "word" THEN "char" ELSE "word"
    /\ sinkCalls' = <<>>
    /\ hostDeletes' = 0
    /\ lastEvent' = Event("toggleMode", "")
    /\ UNCHANGED <<pinyinKeys, stagedText, selectionHistory, isExpanded,
                   focusedPinyinCandidate, usageHistory, effectPending>>

setIsExpanded(value) ==
    /\ isExpanded' = value
    /\ sinkCalls' = <<>>
    /\ hostDeletes' = 0
    /\ lastEvent' = Event("view", "")
    /\ UNCHANGED <<pinyinKeys, stagedText, selectionHistory, candidateMode,
                   focusedPinyinCandidate, usageHistory, effectPending>>

----------------------------------------------------------------------------
(* Events the rendered component accepts *)

CanSelect == SelectionsMade < MaxSelections

RECURSIVE HistoryKeys(_)
\* the keys consumed by the selections of the history, oldest first
HistoryKeys(h) == IF h = <<>> THEN <<>> ELSE Head(h).keys \o HistoryKeys(Tail(h))

CanAppend == Len(HistoryKeys(selectionHistory)) + Len(pinyinKeys) < MaxKeys

Tap ==
    \E data \in TappedKeys :
        /\ ~effectPending /\ ~isExpanded
        /\ (data.hasChars /\ Len(data.chars) > 1) => CanAppend
        /\ (data.action = "space" /\ Len(pinyinKeys) > 0 /\ Len(candidates) > 0) => CanSelect
        /\ handleTap(data)
        /\ Observe

PanelDelete ==
    /\ ~effectPending /\ isExpanded
    /\ handlePanelDelete
    /\ Observe

LongPressBackspace ==
    /\ ~effectPending /\ ~isExpanded
    /\ handleLongPressStart(KBackspace)
    /\ Observe

UtilityClose ==
    /\ ~effectPending /\ ~isExpanded
    /\ utilityClose
    /\ Observe

SlideCommit ==
    \E data \in {k \in TappedKeys : k.hasChars /\ Len(k.chars) > 1} :
      \E finalIndex \in {0, Len(data.chars) \div 2} :
        /\ ~effectPending /\ ~isExpanded
        /\ handleSlideCommit(data.chars[finalIndex + 1])
        /\ Observe

SelectCandidate ==
    /\ ~effectPending
    /\ CanSelect
    /\ LET shown == shownCandidates
       IN  \E i \in 1..Len(shown) :
               /\ handleCandidateSelect("selectCandidate", shown[i])
               /\ Observe

ToggleFocus ==
    /\ ~effectPending /\ isExpanded
    /\ LET segments == availablePinyinSegments(pinyinKeys)
       IN  \E i \in 1..Len(segments) :
               /\ toggleFocus(segments[i])
               /\ Observe

ToggleMode ==
    /\ ~effectPending /\ isExpanded
    /\ toggleMode
    /\ Observe

Expand ==
    /\ ~effectPending /\ ~isExpanded /\ hasComposition
    /\ setIsExpanded(TRUE)
    /\ Observe

Collapse ==
    /\ ~effectPending /\ isExpanded
    /\ setIsExpanded(FALSE)
    /\ Observe

Next ==
    \/ EffectPinyinKeys
    \/ Tap
    \/ PanelDelete
    \/ LongPressBackspace
    \/ UtilityClose
    \/ SlideCommit
    \/ SelectCandidate
    \/ ToggleFocus
    \/ ToggleMode
    \/ Expand
    \/ Collapse

Spec == Init /\ [][Next]_vars

----------------------------------------------------------------------------
(* One render: the useMemo values of a given state *)

RECURSIVE BuffersOf(_)
\* the buffers of exactly n keys of the layout that handleTap appends (keys
\* with more than one letter)
BuffersOf(n) ==
    IF n = 0 THEN {<<>>}
    ELSE {Append(b, k) : b \in BuffersOf(n - 1),
                         k \in {g \in ROWS : g.hasChars /\ Len(g.chars) > 1}}

Buffers == UNION {BuffersOf(n) : n \in 0..MaxBuffer}

\* usage counts left by earlier selections
Usages ==
    {<<>>, BumpUsage(<<>>, <<"Pu1">>), BumpUsage(BumpUsage(<<>>, <<"Ge4">>), <<"Ge4">>),
     BumpUsage(<<>>, <<"Ah">>), BumpUsage(<<>>, <<"Guai22">>),
     <<"Ah">> :> 15, <<"Ah">> :> 16}

\* the segments the picker row offers for a buffer
Focusable(keys) ==
    {availablePinyinSegments(keys)[i] : i \in 1..Len(availablePinyinSegments(keys))}

RenderInit ==
    /\ pinyinKeys \in Buffers
    /\ candidateMode \in {"word", "char"}
    /\ focusedPinyinCandidate \in {Null} \cup Focusable(pinyinKeys)
    /\ usageHistory \in Usages
    /\ stagedText = <<>>
    /\ selectionHistory = <<>>
    /\ isExpanded = (pinyinKeys # <<>>)
    /\ effectPending = FALSE
    /\ sinkCalls = <<>>
    /\ hostDeletes = 0
    /\ lastEvent = Event("mount", "")
    /\ undoTrail = NoTrail
    /\ picked = NoPicks
    /\ rendered = NotRendered
    /\ matcherCall = NoCall

\* The three useMemo blocks of one render of KeyboardLayout.
Render ==
    /\ ~rendered.done
    /\ rendered' = [done |-> TRUE,
                    availablePinyinSegments |-> availablePinyinSegments(pinyinKeys),
                    segmentations |-> segmentations(pinyinKeys),
                    candidates |-> candidates,
                    calls |-> IF Len(pinyinKeys) = 0 THEN <<>>
                              ELSE Ranked(pinyinKeys, candidateMode, focusedPinyinCandidate,
                                          usageHistory).calls]
    /\ UNCHANGED <<pinyinKeys, stagedText, selectionHistory, isExpanded, candidateMode,
                   focusedPinyinCandidate, usageHistory, effectPending, sinkCalls,
                   hostDeletes, lastEvent, undoTrail, picked, matcherCall>>

RenderNext == Render

RenderSpec == RenderInit /\ [][RenderNext]_vars

----------------------------------------------------------------------------
(* Typing without a selection: how far the buffer grows *)

\* a tap on the letter group ASDFG, with whatever is already pending
TapLetterGroup ==
    /\ ~effectPending /\ ~isExpanded
    /\ Len(pinyinKeys) < MaxTyped
    /\ handleTap(KA)
    /\ Observe

TypingNext ==
    \/ EffectPinyinKeys
    \/ TapLetterGroup
    \/ PanelDelete
    \/ LongPressBackspace
    \/ ToggleMode
    \/ Expand
    \/ Collapse

TypingSpec == Init /\ [][TypingNext]_vars

----------------------------------------------------------------------------
(* One call of matchesGroups: the specification of the matcher's properties *)

\* KeyGroups the type admits besides the keys of the layout: an empty letter
\* list, and letters listed in upper case
EmptyGroup == CharGroup("", <<>>)
UpperGroup == CharGroup("ASDFG", <<"A", "S", "D", "F", "G">>)

RECURSIVE ChunksOf(_)
\* the chunks of exactly n key groups
ChunksOf(n) ==
    IF n = 0 THEN {<<>>}
    ELSE {Append(b, k) : b \in ChunksOf(n - 1), k \in ROWS \cup {EmptyGroup, UpperGroup}}

Chunks == UNION {ChunksOf(n) : n \in 0..MaxChunk}

\* the syllables of the dictionary, some spelled with capitals, and the empty string
Targets ==
    {VALID_PINYINS[i] : i \in 1..Len(VALID_PINYINS)}
        \cup {<<>>, <<"A">>, <<"G", "E">>, <<"P", "u">>, <<"y", "A">>}

MatcherInit ==
    /\ matcherCall \in {[target |-> t, groups |-> g, returned |-> FALSE, result |-> FALSE] :
                            t \in Targets, g \in Chunks}
    /\ pinyinKeys = <<>>
    /\ stagedText = <<>>
    /\ selectionHistory = <<>>
    /\ isExpanded = FALSE
    /\ candidateMode = "word"
    /\ focusedPinyinCandidate = Null
    /\ usageHistory = <<>>
    /\ effectPending = FALSE
    /\ sinkCalls = <<>>
    /\ hostDeletes = 0
    /\ lastEvent = Event("mount", "")
    /\ undoTrail = NoTrail
    /\ picked = NoPicks
    /\ rendered = NotRendered

\* matchesGroups(target, groups) returns
MatchGroups ==
    /\ ~matcherCall.returned
    /\ matcherCall' = [matcherCall EXCEPT
                          !.returned = TRUE,
                          !.result = matchesGroups(matcherCall.target, matcherCall.groups)]
    /\ UNCHANGED <<pinyinKeys, stagedText, selectionHistory, isExpanded, candidateMode,
                   focusedPinyinCandidate, usageHistory, effectPending, sinkCalls,
                   hostDeletes, lastEvent, undoTrail, picked, rendered>>

MatcherNext == MatchGroups

MatcherSpec == MatcherInit /\ [][MatcherNext]_vars

----------------------------------------------------------------------------
(* Properties *)

\* A step taken from a state with no effect pending is the handling of one
\* inbound event; lastEvent' then describes it.
SelectionKinds == {"selectCandidate", "space"}
IsSelection(e) == e.kind \in SelectionKinds /\ e.len > 0

\* the first listed letter of each key group, in order
FirstLetters(keys) == [i \in 1..Len(keys) |-> keys[i].chars[1]]

\* C1: Undo law.  After N consecutive candidate selections, each of the next N
\* deletes restores pendingKeys, stagedText and selectionHistory to what they
\* were before the selection it withdraws, the N-th to the values before the
\* first selection.
UndoLaw ==
    [][(~effectPending /\ lastEvent'.kind = "backspace" /\ focusedPinyinCandidate = Null
        /\ selectionHistory # <<>> /\ undoTrail.snaps # <<>>)
       => composition' = undoTrail.snaps[Len(undoTrail.snaps)]]_vars

\* Two selections have been withdrawn by two deletes and the trail is used up.
UndoLawWitness ==
    /\ lastEvent.branch = "undo"
    /\ undoTrail.undone = 2
    /\ undoTrail.snaps = <<>>
    /\ selectionHistory = <<>>
    /\ Len(pinyinKeys) = 3

SinkOncePerEvent == Len(sinkCalls) <= 1

\* C3 as amended: every event calls the sink at most once, except a slide
\* commit with staged text, which calls it exactly twice: the staged text, then
\* the letter.
SinkCallsPerEvent ==
    [][~effectPending =>
        IF lastEvent'.kind = "slideCommit" /\ Len(stagedText) > 0
        THEN Len(sinkCalls') = 2 /\ sinkCalls'[1] = stagedText /\ Len(sinkCalls'[2]) = 1
        ELSE Len(sinkCalls') <= 1]_vars

SinkCallsPerEventWitness ==
    /\ lastEvent.kind = "slideCommit"
    /\ Len(sinkCalls) = 2
    /\ Len(sinkCalls[1]) >= 1

\* C4: stagedText is non-empty only if pendingKeys is non-empty.
StagedOnlyWhilePending == stagedText # <<>> => pinyinKeys # <<>>

\* Staged text survives the withdrawal of a later selection.
StagedOnlyWhilePendingWitness ==
    /\ lastEvent.branch = "undo"
    /\ stagedText # <<>>
    /\ pinyinKeys # <<>>

\* C5: a selection whose consumedLen covers all pending keys sends the previous
\* stagedText followed by the value to the sink and leaves the machine idle
\* with no focus; a selection that leaves pending keys sends nothing.
SelectCommitsOrStages ==
    [][(~effectPending /\ IsSelection(lastEvent'))
       => IF lastEvent'.len >= Len(pinyinKeys)
          THEN /\ sinkCalls' = <<stagedText \o lastEvent'.arg>>
               /\ pinyinKeys' = <<>>
               /\ stagedText' = <<>>
               /\ selectionHistory' = <<>>
               /\ focusedPinyinCandidate' = Null
          ELSE sinkCalls' = <<>>]_vars

\* A commit that carried staged text.
SelectCommitsOrStagesWitness ==
    /\ IsSelection(lastEvent)
    /\ lastEvent.branch = "commit"
    /\ Len(sinkCalls) = 1
    /\ Len(sinkCalls[1]) > Len(lastEvent.arg)

\* C6: a selection of value v raises usageHistory[v] by exactly 1 and leaves
\* the other entries alone; no other step changes usageHistory.
UsageCountsSelections ==
    [][IF ~effectPending /\ IsSelection(lastEvent')
       THEN /\ DOMAIN usageHistory' = DOMAIN usageHistory \cup {lastEvent'.arg}
            /\ \A v \in DOMAIN usageHistory' :
                  usageHistory'[v] = Freq(usageHistory, v) + (IF v = lastEvent'.arg THEN 1 ELSE 0)
       ELSE usageHistory' = usageHistory]_vars

\* The same value selected twice, the second time through space.
UsageCountsSelectionsWitness ==
    /\ lastEvent.kind = "space"
    /\ IsSelection(lastEvent)
    /\ Freq(usageHistory, lastEvent.arg) = 2

\* C7: a delete while a syllable is focused only clears the focus.
DeleteClearsFocusOnly ==
    [][(~effectPending /\ lastEvent'.kind = "backspace" /\ focusedPinyinCandidate # Null)
       => /\ focusedPinyinCandidate' = Null
          /\ UNCHANGED <<pinyinKeys, stagedText, selectionHistory, usageHistory>>
          /\ sinkCalls' = <<>>
          /\ hostDeletes' = 0]_vars

\* The focus was cleared while a selection could have been withdrawn.
DeleteClearsFocusOnlyWitness ==
    /\ lastEvent.branch = "unfocus"
    /\ selectionHistory # <<>>
    /\ focusedPinyinCandidate = Null

\* C8: a delete with no focus withdraws the last selection if there is one,
\* else drops the last pending key, else the last staged character, else calls
\* the host's delete and changes nothing; the host's delete is called in no
\* other case.
DeletePriority ==
    [][(~effectPending /\ lastEvent'.kind = "backspace" /\ focusedPinyinCandidate = Null)
       => /\ sinkCalls' = <<>>
          /\ IF selectionHistory # <<>>
             THEN LET last == selectionHistory[Len(selectionHistory)]
                  IN  /\ selectionHistory' = SubSeq(selectionHistory, 1, Len(selectionHistory) - 1)
                      /\ pinyinKeys' = last.keys \o pinyinKeys
                      /\ stagedText' = SubSeq(stagedText, 1, Len(stagedText) - Len(last.text))
                      /\ hostDeletes' = 0
             ELSE IF pinyinKeys # <<>>
             THEN /\ pinyinKeys' = SubSeq(pinyinKeys, 1, Len(pinyinKeys) - 1)
                  /\ UNCHANGED <<stagedText, selectionHistory>>
                  /\ hostDeletes' = 0
             ELSE IF stagedText # <<>>
             THEN /\ stagedText' = SubSeq(stagedText, 1, Len(stagedText) - 1)
                  /\ UNCHANGED <<pinyinKeys, selectionHistory>>
                  /\ hostDeletes' = 0
             ELSE /\ hostDeletes' = 1
                  /\ UNCHANGED <<pinyinKeys, stagedText, selectionHistory>>]_vars

\* A selection was withdrawn after a key had been appended behind it.
DeletePriorityWitness ==
    /\ lastEvent.branch = "undo"
    /\ undoTrail.undone = 0
    /\ selectionHistory = <<>>
    /\ Len(pinyinKeys) = MaxKeys
    /\ ~isExpanded

\* C9: an explicit cancel empties pendingKeys, stagedText, selectionHistory and
\* the focus, sends nothing to the sink and leaves usageHistory and
\* candidateMode unchanged.
CancelResets ==
    [][(~effectPending /\ lastEvent'.kind = "cancel")
       => /\ pinyinKeys' = <<>>
          /\ stagedText' = <<>>
          /\ selectionHistory' = <<>>
          /\ focusedPinyinCandidate' = Null
          /\ sinkCalls' = <<>>
          /\ hostDeletes' = 0
          /\ UNCHANGED <<usageHistory, candidateMode>>]_vars

\* A composition with a staged selection was cancelled.
CancelResetsWitness ==
    /\ lastEvent.kind = "cancel"
    /\ picked.values # <<>>
    /\ usageHistory # <<>>
    /\ Idle

\* C10: Enter with a composition sends stagedText followed by the first listed
\* letter of each pending key in one call and resets the composition; Enter
\* while idle sends a newline and changes nothing.
EnterForcesCommit ==
    [][(~effectPending /\ lastEvent'.kind = "enter")
       => IF pinyinKeys # <<>> \/ stagedText # <<>>
          THEN /\ sinkCalls' = <<stagedText \o FirstLetters(pinyinKeys)>>
               /\ pinyinKeys' = <<>>
               /\ stagedText' = <<>>
               /\ selectionHistory' = <<>>
               /\ focusedPinyinCandidate' = Null
          ELSE /\ sinkCalls' = << <<"\n">> >>
               /\ UNCHANGED <<pinyinKeys, stagedText, selectionHistory, isExpanded,
                              candidateMode, focusedPinyinCandidate, usageHistory>>]_vars

\* Enter sent staged text and the raw reading of two pending keys.
EnterForcesCommitWitness ==
    /\ lastEvent.kind = "enter"
    /\ picked.values # <<>>
    /\ Len(sinkCalls) = 1
    /\ Len(sinkCalls[1]) = Len(Concat(picked.values)) + 2
    /\ Idle

\* What selecting candidate c does to the component and its collaborators.
SelectOutcome(c) ==
    LET rest == SubSeq(pinyinKeys, c.consumedLen + 1, Len(pinyinKeys))
    IN  /\ usageHistory' = [v \in DOMAIN usageHistory \cup {c.value} |->
                               Freq(usageHistory, v) + (IF v = c.value THEN 1 ELSE 0)]
        /\ candidateMode' = candidateMode
        /\ focusedPinyinCandidate' = Null
        /\ hostDeletes' = 0
        /\ IF rest = <<>>
           THEN /\ sinkCalls' = <<stagedText \o c.value>>
                /\ pinyinKeys' = <<>> /\ stagedText' = <<>> /\ selectionHistory' = <<>>
                /\ isExpanded' = FALSE
           ELSE /\ sinkCalls' = <<>>
                /\ pinyinKeys' = rest
                /\ stagedText' = stagedText \o c.value
                /\ selectionHistory' = Append(selectionHistory,
                      [text |-> c.value, keys |-> SubSeq(pinyinKeys, 1, c.consumedLen)])
                /\ isExpanded' = TRUE

\* C11: whenever the candidate list is non-empty, a space tap has the
\* successor state and the sink output of selecting candidates[0], which are
\* those of a tap on that candidate's button.
SpaceSelectsBest ==
    [][(~effectPending /\ lastEvent'.kind \in {"space", "selectCandidate"}) =>
        LET list == candidates
        IN  /\ (lastEvent'.kind = "space" /\ Len(list) > 0)
                  => /\ lastEvent'.arg = list[1].value
                     /\ lastEvent'.len = list[1].consumedLen
                     /\ SelectOutcome(list[1])
            /\ lastEvent'.kind = "selectCandidate"
                  => \E i \in 1..Len(list) :
                        /\ lastEvent'.arg = list[i].value
                        /\ lastEvent'.len = list[i].consumedLen
                        /\ SelectOutcome(list[i])]_vars

\* Space staged the best candidate of a list and left keys pending.
SpaceSelectsBestWitness ==
    /\ lastEvent.kind = "space"
    /\ lastEvent.branch = "stage"
    /\ stagedText = lastEvent.arg
    /\ isExpanded
    /\ pinyinKeys # <<>>

\* C12 as stated: a space tap with no best candidate and staged text sends
\* stagedText followed by one space and resets the composition; with no
\* candidate and no staged text it sends one space.
SpaceFlushResets ==
    [][(~effectPending /\ lastEvent'.kind = "space"
        /\ (Len(pinyinKeys) = 0 \/ Len(candidates) = 0))
       => IF stagedText # <<>>
          THEN /\ sinkCalls' = <<stagedText \o <<" ">> >>
               /\ pinyinKeys' = <<>>
               /\ stagedText' = <<>>
               /\ selectionHistory' = <<>>
          ELSE sinkCalls' = << <<" ">> >>]_vars

\* C13 as stated: while composing, a tap on a single-letter key never sends its
\* literal to the sink with the composition left untouched; while idle the
\* literal is sent and the state is unchanged.
LiteralRoutedWhileComposing ==
    [][(~effectPending /\ lastEvent'.kind = "literal")
       => IF hasComposition
          THEN ~(sinkCalls' = <<lastEvent'.arg>> /\ composition' = composition)
          ELSE /\ sinkCalls' = <<lastEvent'.arg>>
               /\ UNCHANGED <<pinyinKeys, stagedText, selectionHistory, isExpanded,
                              candidateMode, focusedPinyinCandidate, usageHistory>>]_vars

\* C14: once an event that changed pendingKeys has been handled and its effect
\* has run, focusedSyllable is unset; appending a key with several letters
\* adds that key at the end of pendingKeys and changes neither stagedText nor
\* selectionHistory.
FocusClearedOnKeyChange ==
    [][/\ pinyinKeys' # pinyinKeys => (focusedPinyinCandidate' = Null \/ effectPending')
       /\ effectPending => /\ ~effectPending'
                           /\ focusedPinyinCandidate' = Null
                           /\ pinyinKeys' = pinyinKeys
       /\ (~effectPending /\ lastEvent'.kind = "letterGroup")
             => /\ Len(pinyinKeys') = Len(pinyinKeys) + 1
                /\ SubSeq(pinyinKeys', 1, Len(pinyinKeys)) = pinyinKeys
                /\ pinyinKeys'[Len(pinyinKeys')].chars = lastEvent'.arg
                /\ UNCHANGED <<stagedText, selectionHistory>>]_vars

\* A key was appended while a syllable was focused; the effect is about to run.
FocusClearedOnKeyChangeWitness ==
    /\ lastEvent.branch = "append"
    /\ effectPending
    /\ focusedPinyinCandidate # Null
    /\ Len(pinyinKeys) >= 2

----------------------------------------------------------------------------
(* Properties of one render (RenderSpec) *)

ToSet(seq) == {seq[i] : i \in 1..Len(seq)}
NoRepeats(seq) == Cardinality(ToSet(seq)) = Len(seq)

\* syllable s is in the dictionary and each of its letters is one of the
\* letters of the key at the same place of B[from .. from + Len(s))
SyllableAt(B, from, s) ==
    /\ \E k \in 1..Len(VALID_PINYINS) : VALID_PINYINS[k] = s
    /\ from + Len(s) <= Len(B)
    /\ \A j \in 1..Len(s) : \E c \in 1..Len(B[from + j].chars) : B[from + j].chars[c] = s[j]

RECURSIVE SumLen(_)
SumLen(path) == IF path = <<>> THEN 0 ELSE Head(path).len + SumLen(Tail(path))

\* C15: segmentation soundness.  The Segment lengths of every decomposition
\* returned sum to the length of the buffer, and every Segment is a dictionary
\* syllable, as long as the keys it consumes, that matches exactly the slice
\* of the buffer it consumes.
SegmentationSound ==
    rendered.done =>
        \A p \in 1..Len(rendered.segmentations) :
            LET path == rendered.segmentations[p]
            IN  /\ SumLen(path) = Len(pinyinKeys)
                /\ \A k \in 1..Len(path) :
                      /\ path[k].len = Len(path[k].str)
                      /\ path[k].len \in 1..MaxSyllableLen
                      /\ SyllableAt(pinyinKeys, SumLen(SubSeq(path, 1, k - 1)), path[k].str)

\* A buffer of four keys with two decompositions, one of them of three syllables.
SegmentationSoundWitness ==
    /\ rendered.done
    /\ Len(pinyinKeys) = 4
    /\ Len(rendered.segmentations) >= 2
    /\ \E p \in 1..Len(rendered.segmentations) : Len(rendered.segmentations[p]) = 3

RECURSIVE Decompositions(_, _)
\* every way to cut B[from ..] into consecutive dictionary syllables of 1 to 6
\* letters that match their slices, without a memo table
Decompositions(B, from) ==
    IF from = Len(B) THEN {<<>>}
    ELSE UNION {{<<[str |-> s, len |-> Len(s)]>> \o rest :
                    rest \in Decompositions(B, from + Len(s))} :
                s \in {t \in ToSet(VALID_PINYINS) :
                          Len(t) \in 1..MaxSyllableLen /\ SyllableAt(B, from, t)}}

\* C16: segmentation completeness.  For a non-empty buffer the memoized
\* segmentation returns every full-length decomposition of the un-memoized
\* recursion, each exactly once, and so is empty exactly when there is none.
SegmentationComplete ==
    (rendered.done /\ pinyinKeys # <<>>) =>
        /\ ToSet(rendered.segmentations) = Decompositions(pinyinKeys, 0)
        /\ NoRepeats(rendered.segmentations)

\* Three decompositions or more: a suffix is reached along two ways and is
\* served from the memo table the second time.
SegmentationCompleteWitness ==
    /\ rendered.done
    /\ Len(rendered.segmentations) >= 3
    /\ \E p, q \in 1..Len(rendered.segmentations) :
          /\ rendered.segmentations[p][1] # rendered.segmentations[q][1]
          /\ Len(rendered.segmentations[p]) >= 2
          /\ Len(rendered.segmentations[q]) >= 2
          /\ rendered.segmentations[p][Len(rendered.segmentations[p])]
                = rendered.segmentations[q][Len(rendered.segmentations[q])]

\* C17 as stated: for the empty buffer the segmentation yields exactly one
\* decomposition, the empty one.
EmptyBufferOneDecomposition ==
    (rendered.done /\ pinyinKeys = <<>>) => rendered.segmentations = << <<>> >>

\* C17 as amended: for the empty buffer the segmentation yields no
\* decomposition at all; no decomposition of a non-empty buffer is empty.
EmptyBufferNoDecomposition ==
    rendered.done =>
        IF pinyinKeys = <<>> THEN rendered.segmentations = <<>>
        ELSE \A p \in 1..Len(rendered.segmentations) : rendered.segmentations[p] # <<>>

EmptyBufferNoDecompositionWitness ==
    /\ rendered.done
    /\ pinyinKeys = <<>>
    /\ rendered.segmentations = <<>>
    /\ rendered.candidates = <<>>

\* C18: the syllable prefixes of buffer B are exactly the Segments
\* {str: s, len: n} with 1 <= n <= min(6, len(B)), s a dictionary syllable of
\* n letters matching B[0..n), whether or not B has a decomposition; none for
\* the empty buffer.
PrefixesExact ==
    rendered.done =>
        /\ ToSet(rendered.availablePinyinSegments)
              = {[str |-> s, len |-> Len(s)] :
                    s \in {t \in ToSet(VALID_PINYINS) :
                              /\ Len(t) \in 1..Min(MaxSyllableLen, Len(pinyinKeys))
                              /\ SyllableAt(pinyinKeys, 0, t)}}
        /\ NoRepeats(rendered.availablePinyinSegments)
        /\ pinyinKeys = <<>> => rendered.availablePinyinSegments = <<>>

\* A buffer without any decomposition that has prefixes of two lengths.
PrefixesExactWitness ==
    /\ rendered.done
    /\ rendered.segmentations = <<>>
    /\ \E i, j \in 1..Len(rendered.availablePinyinSegments) :
          rendered.availablePinyinSegments[i].len < rendered.availablePinyinSegments[j].len

\* the place, among the calls of addResult, of the first one that offered the
\* pair (value, consumedLen) of candidate c
FirstOfferIndex(calls, c) ==
    CHOOSE a \in 1..Len(calls) :
        /\ calls[a].value = c.value /\ calls[a].consumedLen = c.consumedLen
        /\ \A b \in 1..(a - 1) :
              ~(calls[b].value = c.value /\ calls[b].consumedLen = c.consumedLen)

FirstOffer(calls, c) == calls[FirstOfferIndex(calls, c)]

\* C19 as stated: the candidate list is strictly descending by score.
StrictlyDescending ==
    rendered.done =>
        \A i \in 1..(Len(rendered.candidates) - 1) :
            rendered.candidates[i].score > rendered.candidates[i + 1].score

\* C19 as amended: the candidate list is descending by score, not strictly:
\* an earlier candidate never has a smaller score than a later one, and
\* candidates of equal score stand in the order they were produced.
DescendingByScore ==
    rendered.done =>
        /\ \A i \in 1..(Len(rendered.candidates) - 1) :
              rendered.candidates[i].score >= rendered.candidates[i + 1].score
        /\ \A i, j \in 1..Len(rendered.candidates) :
              (i < j /\ rendered.candidates[i].score = rendered.candidates[j].score)
                  => FirstOfferIndex(rendered.calls, rendered.candidates[i])
                        < FirstOfferIndex(rendered.calls, rendered.candidates[j])

\* Two candidates of equal score, the first characters of two alternative
\* first syllables of different lengths, stand in the order they were produced.
DescendingByScoreWitness ==
    /\ rendered.done
    /\ \E i \in 1..(Len(rendered.candidates) - 1) :
          /\ rendered.candidates[i].score = rendered.candidates[i + 1].score
          /\ rendered.candidates[i].consumedLen < rendered.candidates[i + 1].consumedLen
          /\ rendered.candidates[i].type = "char"

\* C20: no two candidates of the list have the same (value, consumedLen);
\* the candidate kept for a pair is the one offered first, with its score and
\* kind, whatever later offers of the pair would have scored.
DedupeFirstWins ==
    rendered.done =>
        /\ \A i, j \in 1..Len(rendered.candidates) :
              (rendered.candidates[i].value = rendered.candidates[j].value
               /\ rendered.candidates[i].consumedLen = rendered.candidates[j].consumedLen)
                  => i = j
        /\ \A i \in 1..Len(rendered.candidates) :
              rendered.candidates[i] = FirstOffer(rendered.calls, rendered.candidates[i])
        /\ \A a \in 1..Len(rendered.calls) :
              \E i \in 1..Len(rendered.candidates) :
                  /\ rendered.candidates[i].value = rendered.calls[a].value
                  /\ rendered.candidates[i].consumedLen = rendered.calls[a].consumedLen

\* A pair was offered again with a higher score than the entry kept for it.
DedupeFirstWinsWitness ==
    /\ rendered.done
    /\ \E i \in 1..Len(rendered.candidates), a \in 1..Len(rendered.calls) :
          /\ rendered.calls[a].value = rendered.candidates[i].value
          /\ rendered.calls[a].consumedLen = rendered.candidates[i].consumedLen
          /\ rendered.calls[a].score > rendered.candidates[i].score

\* the position of the first occurrence of x in a list
PositionIn(list, x) ==
    CHOOSE k \in 1..Len(list) : list[k] = x /\ \A m \in 1..(k - 1) : list[m] # x

\* C21: while a pinyin candidate is focused, the candidate list holds exactly
\* the characters the dictionary lists for that syllable, each of type "char"
\* and consuming focus.len keys (no phrase, no raw fallback), and characters
\* with equal usage counts appear in dictionary order.
FocusedListsSyllableCharacters ==
    (rendered.done /\ focusedPinyinCandidate # Null) =>
        LET list == rendered.candidates
            dict == PINYIN_TO_HANZI(focusedPinyinCandidate.str)
        IN  /\ {list[i].value : i \in 1..Len(list)} = ToSet(dict)
            /\ \A i \in 1..Len(list) :
                   /\ list[i].type = "char"
                   /\ list[i].display = list[i].value
                   /\ list[i].consumedLen = focusedPinyinCandidate.len
            /\ \A i, j \in 1..Len(list) :
                   (i < j /\ Freq(usageHistory, list[i].value)
                              = Freq(usageHistory, list[j].value))
                       => PositionIn(dict, list[i].value) < PositionIn(dict, list[j].value)

\* a focused "pu" on a longer buffer, whose other readings and paths are left out
FocusedListsSyllableCharactersWitness ==
    /\ rendered.done
    /\ focusedPinyinCandidate # Null
    /\ focusedPinyinCandidate.str = <<"p", "u">>
    /\ Len(pinyinKeys) > focusedPinyinCandidate.len
    /\ usageHistory = <<>>
    /\ Len(rendered.candidates) = 2
    /\ rendered.candidates[1].value = <<"Pu3">>
    /\ rendered.candidates[2].value = <<"Pu1">>

RECURSIVE PhraseKey(_, _)
\* the apostrophe-joined spelling of the first k syllables of a path
PhraseKey(path, k) ==
    IF k = 0 THEN <<>>
    ELSE IF k = 1 THEN path[1].str
    ELSE PhraseKey(path, k - 1) \o <<"'">> \o path[k].str

\* a path from which the default mode takes a phrase or a character
Productive(path) ==
    /\ path # <<>>
    /\ \/ PINYIN_TO_HANZI(path[1].str) # <<>>
       \/ \E k \in 1..Min(Len(path), 4) : COMMON_PHRASES(PhraseKey(path, k)) # <<>>

\* C22: with a non-empty buffer, no focus, and no candidate produced from any
\* segmentation (in particular when the buffer has no segmentation), the
\* candidate list is exactly one raw-fallback candidate whose value is the
\* first letter of each key and whose consumedLen is the buffer length.
RawFallbackWhenNothingProduced ==
    (/\ rendered.done
     /\ pinyinKeys # <<>>
     /\ focusedPinyinCandidate = Null
     /\ \A p \in 1..Len(rendered.segmentations) :
            ~Productive(rendered.segmentations[p]))
        => /\ Len(rendered.candidates) = 1
           /\ rendered.candidates[1].type = "raw"
           /\ rendered.candidates[1].value = FirstLetters(pinyinKeys)
           /\ rendered.candidates[1].consumedLen = Len(pinyinKeys)

\* C23: in every state shown to the presentation, before or after the effect
\* on pinyinKeys has run, every candidate consumes at least one and at most
\* Len(pinyinKeys) keys, and a focus that is set has len <= Len(pinyinKeys).
CandidatesWithinBuffer ==
    LET list == candidates
    IN  /\ \A i \in 1..Len(list) :
               /\ 1 <= list[i].consumedLen
               /\ list[i].consumedLen <= Len(pinyinKeys)
        /\ focusedPinyinCandidate # Null =>
               /\ 1 <= focusedPinyinCandidate.len
               /\ focusedPinyinCandidate.len <= Len(pinyinKeys)

\* a key was appended under a focus that the effect has not yet reset
CandidatesWithinBufferWitness ==
    /\ effectPending
    /\ lastEvent.branch = "append"
    /\ focusedPinyinCandidate # Null
    /\ focusedPinyinCandidate.len < Len(pinyinKeys)
    /\ Len(candidates) > 0

\* the summed key-group lengths of the first k syllables of a path
PrefixLen(path, k) == SumLen(SubSeq(path, 1, k))

\* the <<phrase, consumedLen>> pairs the phrase table gives for the prefixes
\* of at most four syllables of the paths
PhrasesOfPaths(paths) ==
    UNION {UNION {{<<COMMON_PHRASES(PhraseKey(paths[p], k))[n], PrefixLen(paths[p], k)>> :
                      n \in 1..Len(COMMON_PHRASES(PhraseKey(paths[p], k)))} :
                  k \in 1..Min(4, Len(paths[p]))} :
           p \in 1..Len(paths)}

\* the <<character, consumedLen>> pairs the dictionary gives for the first
\* syllables of the paths
CharactersOfPaths(paths) ==
    UNION {{<<PINYIN_TO_HANZI(paths[p][1].str)[n], paths[p][1].len>> :
               n \in 1..Len(PINYIN_TO_HANZI(paths[p][1].str))} :
           p \in {q \in 1..Len(paths) : paths[q] # <<>>}}

\* C25: in default mode (no focus) every phrase candidate is a phrase the
\* table lists under the apostrophe-joined first k syllables (k in 1..4) of
\* some segmentation path, consuming the summed lengths of those syllables;
\* every character candidate is a dictionary character of the first syllable
\* of some path, consuming that syllable's len; and every such phrase and
\* character is in the list under its value and consumedLen.
DefaultListFromPaths ==
    (rendered.done /\ pinyinKeys # <<>> /\ focusedPinyinCandidate = Null) =>
        LET list == rendered.candidates
            paths == rendered.segmentations
        IN  /\ \A i \in 1..Len(list) :
                   /\ list[i].type = "phrase" =>
                          <<list[i].value, list[i].consumedLen>> \in PhrasesOfPaths(paths)
                   /\ list[i].type = "char" =>
                          <<list[i].value, list[i].consumedLen>> \in CharactersOfPaths(paths)
            /\ \A pair \in PhrasesOfPaths(paths) \cup CharactersOfPaths(paths) :
                   \E i \in 1..Len(list) :
                       list[i].value = pair[1] /\ list[i].consumedLen = pair[2]

\* a phrase over the first two syllables of a three-syllable path, next to a
\* character of the first syllable
DefaultListFromPathsWitness ==
    /\ rendered.done
    /\ focusedPinyinCandidate = Null
    /\ Len(pinyinKeys) = 4
    /\ \E i, j \in 1..Len(rendered.candidates) :
          /\ rendered.candidates[i].type = "phrase"
          /\ rendered.candidates[i].value = <<"A1", "Ge1">>
          /\ rendered.candidates[i].consumedLen = 3
          /\ rendered.candidates[j].type = "char"
          /\ rendered.candidates[j].value = <<"Ah">>
          /\ rendered.candidates[j].consumedLen = 1

\* the candidate at i is a phrase listed under the two syllables of a path
\* that covers the whole buffer
TwoSyllablePhraseAt(list, paths, i) ==
    /\ list[i].type = "phrase"
    /\ \E p \in 1..Len(paths) :
          /\ Len(paths[p]) = 2
          /\ Includes(COMMON_PHRASES(PhraseKey(paths[p], 2)), list[i].value)
          /\ list[i].consumedLen = PrefixLen(paths[p], 2)

\* C26 as stated: a phrase listed for a buffer that segments as its two
\* syllables scores strictly higher than every character candidate of the
\* same list, in both modes and under every usage history.
PhraseOutranksCharacters ==
    (rendered.done /\ focusedPinyinCandidate = Null) =>
        LET list == rendered.candidates
        IN  \A i, j \in 1..Len(list) :
               (TwoSyllablePhraseAt(list, rendered.segmentations, i)
                   /\ list[j].type = "char")
                   => list[i].score > list[j].score

\* C26: in word mode, a phrase listed for a buffer that segments as its two
\* syllables scores strictly higher than every character candidate of the
\* same list whose usage count exceeds the phrase's by at most 15.
PhraseOutranksCharactersInWordMode ==
    (rendered.done /\ focusedPinyinCandidate = Null /\ candidateMode = "word") =>
        LET list == rendered.candidates
        IN  \A i, j \in 1..Len(list) :
               (/\ TwoSyllablePhraseAt(list, rendered.segmentations, i)
                /\ list[j].type = "char"
                /\ Freq(usageHistory, list[j].value)
                       <= Freq(usageHistory, list[i].value) + 15)
                   => list[i].score > list[j].score

\* word mode: the phrase of a'ge stands first although the character of "a"
\* was selected 15 times
PhraseOutranksCharactersInWordModeWitness ==
    /\ rendered.done
    /\ focusedPinyinCandidate = Null
    /\ candidateMode = "word"
    /\ pinyinKeys = <<KA, KA, KQ>>
    /\ Freq(usageHistory, <<"Ah">>) = 15
    /\ rendered.candidates[1].value = <<"A1", "Ge1">>
    /\ rendered.candidates[2].value = <<"Ah">>

\* the score of a candidate before the dictionary-order penalty is taken off:
\* base + mode bonus + 5 * length(value) + 10 * usage
PrePenalty(c) ==
    (IF focusedPinyinCandidate # Null THEN 100
     ELSE IF c.type = "phrase" THEN 150
     ELSE IF c.type = "char" THEN 50
     ELSE 0)
    + ModeBonus(candidateMode, c.type) + 5 * Len(c.value)
    + 10 * Freq(usageHistory, c.value)

\* C27: the dictionary-order penalty only breaks ties: of two candidates
\* whose scores before the penalty differ, the one with the higher
\* pre-penalty score stands first in the ranked list, wherever the two
\* entries stand in their dictionary lists.
PenaltyOnlyBreaksTies ==
    rendered.done =>
        LET list == rendered.candidates
        IN  \A i, j \in 1..Len(list) :
               PrePenalty(list[i]) > PrePenalty(list[j]) => i < j

----------------------------------------------------------------------------
(* Properties of one call of the matcher *)

\* a key group whose letter list is missing or empty
Letterless(group) == ~group.hasChars \/ Len(group.chars) = 0

----------------------------------------------------------------------------
(* Properties of the buffer and of the selection history *)

\* C28: the buffer never holds more than a fixed number of key groups, about
\* 20: a tap on a letter group at that length does not grow it.
BufferCapped == Len(pinyinKeys) <= 20

\* C29: in every reachable state the staged text is the concatenation, oldest
\* first, of the texts of the selections in the history.
StagedIsHistoryText ==
    stagedText = Concat([i \in 1..Len(selectionHistory) |-> selectionHistory[i].text])

\* the keys of a composition in the order they were tapped: those of the
\* history entries, oldest first, followed by the pending keys
TypedKeys(history, keys) == HistoryKeys(history) \o keys

\* C30: a selection that leaves keys pending, and an undo, leave the typed
\* keys (history keys, oldest first, then pinyinKeys) unchanged; that
\* sequence changes only by the append of one tapped letter group at its end,
\* by the removal of its last key through a delete with empty history, or by
\* the end of the composition, which empties it.
KeyConservation ==
    [][LET before == TypedKeys(selectionHistory, pinyinKeys)
           after == TypedKeys(selectionHistory', pinyinKeys')
       IN  /\ lastEvent'.branch \in {"stage", "undo"} => after = before
           /\ after # before =>
                  \/ /\ lastEvent'.branch = "append"
                     /\ Len(after) = Len(before) + 1
                     /\ SubSeq(after, 1, Len(before)) = before
                     /\ after[Len(after)].chars = lastEvent'.arg
                  \/ /\ lastEvent'.branch = "dropKey"
                     /\ selectionHistory = <<>>
                     /\ after = SubSeq(before, 1, Len(before) - 1)
                  \/ /\ pinyinKeys' = <<>>
                     /\ stagedText' = <<>>
                     /\ selectionHistory' = <<>>]_vars

\* the later of two selections was withdrawn: its key stands again in front
\* of the pending key, behind the key kept by the history
KeyConservationWitness ==
    /\ lastEvent.branch = "undo"
    /\ Len(selectionHistory) = 1
    /\ selectionHistory[1].keys = <<KA>>
    /\ pinyinKeys = <<KQ, KA>>

====
